---- MODULE Spec2Model ----
(***************************************************************************)
(* book_tracker: the Load -> Transform -> Summary pipeline.                *)
(*                                                                         *)
(* State: the working directory on disk (the record ledger                 *)
(* raw_records.csv and the optional snapshot files), the in-memory tables  *)
(* of the current run of main(), and the outcome of the last get_measures  *)
(* call.  One action per pipeline stage of main().                         *)
(*                                                                         *)
(* Encoding of pandas values:                                              *)
(*   a float cell is Num(v), NaN, PosInf or NegInf; pages_per_day and the  *)
(*   means are kept in hundredths (30.10 is Num(3010)), score and days in  *)
(*   units;  a datetime cell is Date(d) (d a day number) or NaT;  a raw    *)
(*   spreadsheet cell is Str(d) (the date text of day d), EmptyStr (""),   *)
(*   IntCell(n) or Text (a non-numeric, non-date text).                    *)
(***************************************************************************)
EXTENDS Integers, Sequences, FiniteSets, TLC

VARIABLES
    disk,                       \* the directory: exists, raw_records.csv, snapshot files
    now,                        \* the clock read by pd.Timestamp.now()
    runs,                       \* invocations of main() started so far
    pc,                         \* position of the current invocation of main()
    save_df,                    \* the save_df handed to load and to transform
    year,                       \* the year handed to get_measures
    raw_books_current,          \* extract()'s first table
    raw_consolidate,            \* extract()'s second table
    transformed_books_current,  \* transform()'s first table
    transformed_consolidate,    \* transform()'s second table
    transformed_records,        \* transform()'s third table (the ledger, parsed)
    results,                    \* outcome of get_measures (locals, error)
    log,                        \* the line main() logged when it caught an error
    exit_status,                \* exit status of the last invocation that ended
    calls,                      \* the log_record_if_new calls made so far (observer)
    loaders                     \* the load invocations running side by side, if any

vars == <<disk, now, runs, pc, save_df, year, raw_books_current, raw_consolidate,
          transformed_books_current, transformed_consolidate, transformed_records,
          results, log, exit_status, calls, loaders>>

-----------------------------------------------------------------------------
(* Bounds of the model *)

MaxRows == 3        \* rows of a source table
MaxLegacy == 2      \* rows of the consolidate table
MaxRuns == 3        \* invocations of main()
MaxRank == 4        \* rows of a table whose rows are ranked by score
MaxLoaders == 2     \* load invocations running side by side

-----------------------------------------------------------------------------
(* Values *)

Num(v) == [k |-> "num", v |-> v]
NaN == [k |-> "nan", v |-> 0]
PosInf == [k |-> "inf", v |-> 1]
NegInf == [k |-> "inf", v |-> -1]
Date(d) == [k |-> "date", v |-> d]
NaT == [k |-> "nat", v |-> 0]
Str(d) == [k |-> "str", v |-> d]
EmptyStr == [k |-> "empty", v |-> 0]
IntCell(n) == [k |-> "int", v |-> n]
Text == [k |-> "text", v |-> 0]

Last(s) == s[Len(s)]

IsPrefix(s, t) == Len(s) <= Len(t) /\ SubSeq(t, 1, Len(s)) = s

(* Decimal text of a non-negative integer, as to_csv writes it, and read_csv's *)
(* parse of it.                                                                *)
RECURSIVE FormatInt(_)
FormatInt(n) == IF n < 10 THEN <<n>> ELSE Append(FormatInt(n \div 10), n % 10)

RECURSIVE ParseInt(_)
ParseInt(digits) ==
    IF Len(digits) = 0 THEN 0
    ELSE 10 * ParseInt(SubSeq(digits, 1, Len(digits) - 1)) + Last(digits)

-----------------------------------------------------------------------------
(* The directory *)

NoFile == [exists |-> FALSE, rows |-> <<>>]

(* What can go wrong with the files of the directory: nothing; the ledger file *)
(* cannot be created, read, or appended to; a snapshot file cannot be written. *)
Faults == {"none", "create", "read", "append", "books", "consolidate"}

NoDisk == [dir |-> FALSE, raw_records |-> NoFile,
           raw_books_current |-> NoFile, raw_consolidate |-> NoFile,
           fault |-> "none"]

(* pd.read_csv(raw_records.csv): the data rows with records_current parsed. *)
ReadRecords(file) ==
    [i \in 1..Len(file.rows) |->
        [date |-> file.rows[i].date,
         records_current |-> ParseInt(file.rows[i].records_current)]]

(* The ledger as a sequence of entries (timestamp, record_count). *)
Ledger == ReadRecords(disk.raw_records)

-----------------------------------------------------------------------------
(* The source: rows the spreadsheet can hold (gspread get_all_records) *)

Row(b, st, sd, ed, tp, sc, y) ==
    [book_name |-> b, author |-> b + 10, status |-> st, start_date |-> sd,
     end_date |-> ed, total_pages |-> tp, score |-> sc, year |-> y]

CatalogueRows ==
    << Row(1, "Completed", Str(10), Str(20), 301, IntCell(8), 2024),
       Row(2, "Completed", Str(30), Str(38), 1, IntCell(9), 2025),
       Row(3, "Completed", Str(40), Str(40), 300, IntCell(7), 2025),
       Row(4, "Ongoing", Str(50), EmptyStr, 120, EmptyStr, 2025),
       Row(5, "Dropped", Str(15), Str(18), 200, Text, 2024) >>

Catalogue == {CatalogueRows[i] : i \in 1..Len(CatalogueRows)}

RECURSIVE SeqsUpTo(_, _)
SeqsUpTo(S, n) ==
    IF n = 0 THEN {<<>>}
    ELSE LET shorter == SeqsUpTo(S, n - 1)
         IN shorter \cup {Append(s, x) : s \in {t \in shorter : Len(t) = n - 1}, x \in S}

(* Every table of at most MaxRows catalogue rows. *)
SourceTables == SeqsUpTo(Catalogue, MaxRows)

(* The spreadsheet over time, as successive invocations of main() find it: rows *)
(* are added at the end or taken away from it, in one of two row orders.         *)
Sheet(k) == [i \in 1..MaxRows |-> CatalogueRows[((i + 2 * k) % Len(CatalogueRows)) + 1]]

(* A row whose start_date cell holds a text that is not a date. *)
MistypedRow == Row(6, "Ongoing", Text, EmptyStr, 90, EmptyStr, 2025)

(* The first sheet with its second row mistyped. *)
MistypedSheet == [i \in 1..MaxRows |-> IF i = 2 THEN MistypedRow ELSE Sheet(0)[i]]

SheetVersions ==
    {SubSeq(s, 1, n) : s \in {Sheet(0), Sheet(1), MistypedSheet}, n \in 0..MaxRows}

(* The column labels of a sheet, and of a transformed table. *)
RawColumns == {"book_name", "author", "status", "start_date", "end_date",
               "total_pages", "score", "year"}
TransformedColumns == RawColumns \cup {"days", "pages_per_day"}

(* The columns of a table; pd.DataFrame([]) of an empty sheet has none. *)
Columns(table) == IF Len(table) = 0 THEN {} ELSE DOMAIN table[1]

(* The table without the column col (a sheet whose header lacks it). *)
DropColumn(table, col) ==
    [i \in 1..Len(table) |-> [c \in (DOMAIN table[i]) \ {col} |-> table[i][c]]]

LegacyTables == {[i \in 1..n |-> [legacy_id |-> i]] : n \in 0..MaxLegacy}

-----------------------------------------------------------------------------
(* elt/load.py *)

(* DataFrame.to_csv: one text row per table row, integers in decimal. *)
CsvCell(c) == IF c.k = "int" THEN [k |-> "digits", v |-> FormatInt(c.v)] ELSE c

ToCsvBooks(table) ==
    [i \in 1..Len(table) |->
        [table[i] EXCEPT !.total_pages = FormatInt(@), !.year = FormatInt(@),
                         !.score = CsvCell(@)]]

WriteFile(rows) == [exists |-> TRUE, rows |-> rows]

(* Variants of log_record_if_new with one slip each: no comparison with the last *)
(* entry; comparison with the first entry (iloc[0]); the file rewritten          *)
(* (mode="w") instead of appended to.                                            *)
log_record_always(d, today, current_count) ==
    [disk |-> [d EXCEPT !.raw_records.rows =
                   Append(@, [date |-> today, records_current |-> FormatInt(current_count)])],
     error |-> "none", ret |-> "None"]

log_record_if_new_first(d, today, current_count) ==
    LET existing == ReadRecords(d.raw_records)
    IN IF Len(existing) = 0 \/ existing[1].records_current # current_count
       THEN log_record_always(d, today, current_count)
       ELSE [disk |-> d, error |-> "none", ret |-> "None"]

log_record_overwrite(d, today, current_count) ==
    LET existing == ReadRecords(d.raw_records)
    IN IF Len(existing) = 0 \/ Last(existing).records_current # current_count
       THEN [disk |-> [d EXCEPT !.raw_records.rows =
                          <<[date |-> today, records_current |-> FormatInt(current_count)]>>],
             error |-> "none", ret |-> "None"]
       ELSE [disk |-> d, error |-> "none", ret |-> "None"]

(* AppendIfNew without the comparison with the last row read. *)
AppendAlways(d, existing, today, current_count) ==
    [d EXCEPT !.raw_records.rows =
         Append(@, [date |-> today, records_current |-> FormatInt(current_count)])]

(* The append of log_record_if_new (line 41), decided on the rows read before *)
(* (line 39): the file gets (today, current_count) when what was read is      *)
(* empty or ends with another count.                                          *)
AppendIfNew(d, existing, today, current_count) ==
    LET new_record == [date |-> today, records_current |-> FormatInt(current_count)]
    IN IF Len(existing) = 0 \/ Last(existing).records_current # current_count
       THEN [d EXCEPT !.raw_records.rows = Append(@, new_record)]
       ELSE d

(* log_record_if_new: read the ledger, append (today, current_count) when it is *)
(* empty or its last count differs.  The function has no return statement; a    *)
(* read_csv or to_csv that fails raises and leaves the file as it was.          *)
log_record_if_new(d, today, current_count) ==
    IF ~d.raw_records.exists
    THEN [disk |-> d, error |-> "FileNotFoundError", ret |-> "raised"]
    ELSE IF d.fault = "read"
    THEN [disk |-> d, error |-> "OSError", ret |-> "raised"]
    ELSE LET existing == ReadRecords(d.raw_records)
             appended == AppendIfNew(d, existing, today, current_count)
         IN IF appended # d /\ d.fault = "append"
            THEN [disk |-> d, error |-> "OSError", ret |-> "raised"]
            ELSE [disk |-> appended, error |-> "none", ret |-> "None"]

(* load: make the directory, reject empty tables, create raw_records.csv on the *)
(* first call, write the snapshots when save_df, then log the record count.     *)
(* A failure to create raw_records.csv is outside every try block; a failure to *)
(* write a snapshot or inside log_record_if_new is raised as LoadError.         *)
load(d, rbc, rc, sdf, today) ==
    LET d1 == [d EXCEPT !.dir = TRUE]
        d2 == IF d1.raw_records.exists THEN d1
              ELSE [d1 EXCEPT !.raw_records = WriteFile(<<>>)]
        current_count == Len(rbc)
        books_saved == [d2 EXCEPT !.raw_books_current = WriteFile(ToCsvBooks(rbc))]
        d3 == IF sdf
              THEN [books_saved EXCEPT !.raw_consolidate = WriteFile(rc)]
              ELSE d2
        logged == log_record_if_new(d3, today, current_count)
    IN IF Len(rbc) = 0 THEN [disk |-> d1, error |-> "ValueError", ret |-> "not called"]
       ELSE IF Len(rc) = 0 THEN [disk |-> d1, error |-> "ValueError", ret |-> "not called"]
       ELSE IF ~d1.raw_records.exists /\ d.fault = "create"
            THEN [disk |-> d1, error |-> "OSError", ret |-> "not called"]
       ELSE IF sdf /\ d.fault = "books"
            THEN [disk |-> d2, error |-> "LoadError", ret |-> "not called"]
       ELSE IF sdf /\ d.fault = "consolidate"
            THEN [disk |-> books_saved, error |-> "LoadError", ret |-> "not called"]
       ELSE IF logged.error # "none"
            THEN [disk |-> logged.disk, error |-> "LoadError", ret |-> logged.ret]
       ELSE logged

(* What an observer of one log_record_if_new call sees. *)
CallRecord(d, today, current_count, outcome) ==
    [today |-> today, count |-> current_count,
     before |-> ReadRecords(d.raw_records), after |-> ReadRecords(outcome.disk.raw_records),
     ret |-> outcome.ret]

-----------------------------------------------------------------------------
(* elt/transform.py *)

(* pd.to_datetime of one cell: "" and NaN give NaT. *)
to_datetime(c) == IF c.k = "str" THEN Date(c.v) ELSE NaT

(* pd.to_datetime raises on a column holding a text that is not a date. *)
UnparsableDates(table) ==
    \E i \in 1..Len(table) : table[i].start_date.k = "text" \/ table[i].end_date.k = "text"

(* pd.to_numeric(errors="coerce") of one cell: what does not parse gives NaN. *)
to_numeric(c) == IF c.k = "int" THEN Num(c.v) ELSE NaN

(* (end_date - start_date).dt.days *)
DaysBetween(ed, sd) == IF ed.k = "date" /\ sd.k = "date" THEN Num(ed.v - sd.v) ELSE NaN

(* round(a / b, 2) in hundredths for b > 0, ties to even as numpy rounds. *)
RoundDiv(a, b) ==
    LET q == a \div b
        r == a % b
    IN IF 2 * r < b THEN q
       ELSE IF 2 * r > b THEN q + 1
       ELSE IF q % 2 = 0 THEN q ELSE q + 1

(* (total_pages / days).round(2): float division, x/0 is +-inf, 0/0 is NaN. *)
PagesPerDay(total_pages, days) ==
    IF days.k # "num" THEN NaN
    ELSE IF days.v = 0
         THEN IF total_pages > 0 THEN PosInf
              ELSE IF total_pages < 0 THEN NegInf ELSE NaN
    ELSE IF days.v > 0 THEN Num(RoundDiv(100 * total_pages, days.v))
    ELSE Num(RoundDiv(-100 * total_pages, -days.v))

(* The row with the columns days and pages_per_day added; the other columns, *)
(* whichever the table has, are kept as they are.                            *)
AddTimeColumns(row) ==
    LET days == DaysBetween(row.end_date, row.start_date)
    IN [c \in (DOMAIN row) \cup {"days", "pages_per_day"} |->
           IF c = "days" THEN days
           ELSE IF c = "pages_per_day" THEN PagesPerDay(row.total_pages, days)
           ELSE row[c]]

(* save_df = False: the in-memory table, dates parsed, score coerced. *)
TransformRow(row) ==
    AddTimeColumns([row EXCEPT !.start_date = to_datetime(@),
                               !.end_date = to_datetime(IF @ = EmptyStr THEN NaN ELSE @),
                               !.score = to_numeric(@)])

(* save_df = True: pd.read_csv of the snapshot.  The score column is numeric only *)
(* when every cell of it is a number or empty; otherwise it stays text.           *)
ReadCsvScore(c, numeric) ==
    IF c.k = "digits" THEN (IF numeric THEN Num(ParseInt(c.v)) ELSE Text)
    ELSE IF c.k = "empty" THEN NaN
    ELSE Text

ReadCsvRow(row, numeric) ==
    AddTimeColumns([row EXCEPT !.start_date = to_datetime(@),
                               !.end_date = to_datetime(@),
                               !.total_pages = ParseInt(@),
                               !.year = ParseInt(@),
                               !.score = ReadCsvScore(@, numeric)])

(* read_csv taking the first data row for the header: that row is lost. *)
ReadCsvBooksHeaderless(file) ==
    LET numeric == \A i \in 1..Len(file.rows) : file.rows[i].score.k # "text"
    IN [i \in 1..(Len(file.rows) - 1) |-> ReadCsvRow(file.rows[i + 1], numeric)]

ReadCsvBooks(file) ==
    LET numeric == \A i \in 1..Len(file.rows) : file.rows[i].score.k # "text"
    IN [i \in 1..Len(file.rows) |-> ReadCsvRow(file.rows[i], numeric)]

NoTables == [error |-> "none", books |-> <<>>, consolidate |-> <<>>, records |-> <<>>]

(* transform: every failure inside either branch (a missing column, a date that *)
(* does not parse, a missing file) is a TransformationError.                    *)
transform(d, rbc, rc, sdf) ==
    IF sdf
    THEN IF ~(d.raw_books_current.exists /\ d.raw_consolidate.exists /\ d.raw_records.exists)
         THEN [NoTables EXCEPT !.error = "TransformationError"]
         ELSE IF UnparsableDates(d.raw_books_current.rows)
         THEN [NoTables EXCEPT !.error = "TransformationError"]
         ELSE [error |-> "none",
               books |-> ReadCsvBooks(d.raw_books_current),
               consolidate |-> d.raw_consolidate.rows,
               records |-> ReadRecords(d.raw_records)]
    ELSE IF ~({"start_date", "end_date", "score", "total_pages"} \subseteq Columns(rbc))
         THEN [NoTables EXCEPT !.error = "TransformationError"]
         ELSE IF UnparsableDates(rbc) \/ ~d.raw_records.exists
         THEN [NoTables EXCEPT !.error = "TransformationError"]
         ELSE [error |-> "none",
               books |-> [i \in 1..Len(rbc) |-> TransformRow(rbc[i])],
               consolidate |-> rc,
               records |-> ReadRecords(d.raw_records)]

-----------------------------------------------------------------------------
(* manipulation/summary.py and its later copy in general_schema_v2.py *)

SeqSum(s) ==
    LET sum[i \in 0..Len(s)] == IF i = 0 THEN 0 ELSE sum[i - 1] + s[i]
    IN sum[Len(s)]

(* Boolean indexing / DataFrame.query: the rows at the positions in keep, in    *)
(* table order.                                                                 *)
SelectRows(table, keep) ==
    LET pick[i \in 0..Len(table)] ==
            IF i = 0 THEN <<>>
            ELSE IF i \in keep THEN Append(pick[i - 1], table[i]) ELSE pick[i - 1]
    IN pick[Len(table)]

Positions(table) == 1..Len(table)

(* Series.min() / Series.max() of the year column of a non-empty table. *)
MinYear(table) == CHOOSE y \in {table[i].year : i \in 1..Len(table)} :
                      \A i \in 1..Len(table) : y <= table[i].year
MaxYear(table) == CHOOSE y \in {table[i].year : i \in 1..Len(table)} :
                      \A i \in 1..Len(table) : y >= table[i].year

(* The year the measures are filtered by: out-of-range requests fall back to the *)
(* maximum year available.                                                       *)
ResolveYear(requested, min_year_available, max_year_available) ==
    IF requested < min_year_available \/ requested > max_year_available
    THEN max_year_available
    ELSE requested

(* CountStatus restricted to the rows of the latest year of the table. *)
CountStatusInMaxYear(table, status) ==
    Len(SelectRows(table, {i \in Positions(table) :
                              table[i].status = status /\ table[i].year = MaxYear(table)}))

CountStatus(table, status) ==
    Len(SelectRows(table, {i \in Positions(table) : table[i].status = status}))

(* CountCompletedIn without the year filter. *)
CountCompletedAnyYear(table, y) ==
    Len(SelectRows(table, {i \in Positions(table) : table[i].status = "Completed"}))

CountCompletedIn(table, y) ==
    Len(SelectRows(table, {i \in Positions(table) :
                              table[i].status = "Completed" /\ table[i].year = y}))

(* The four counts, for the resolved year y. *)
Counts(tbc, tc, y) ==
    [overall_total |-> Len(tc) + CountStatus(tbc, "Completed"),
     total_current |-> CountCompletedIn(tbc, y),
     ongoing |-> CountStatus(tbc, "Ongoing"),
     dropped |-> CountStatus(tbc, "Dropped")]

YearSubset(table, y) == SelectRows(table, {i \in Positions(table) : table[i].year = y})

(* series.dropna().mean() of a series with no non-null cell is the Python float  *)
(* nan, which has no round method: .round(2) raises AttributeError.              *)
EmptyMean(cells) == \A i \in 1..Len(cells) : cells[i].k = "nan"

(* series.dropna().mean().round(2) of float cells; scale is 1 for cells already *)
(* in hundredths and 100 for cells in units.  The result is in hundredths.       *)
MeanRound2(cells, scale) ==
    LET kept == SelectRows(cells, {i \in Positions(cells) : cells[i].k # "nan"})
        finite == SelectRows(kept, {i \in Positions(kept) : kept[i].k = "num"})
        pos == \E i \in 1..Len(kept) : kept[i] = PosInf
        neg == \E i \in 1..Len(kept) : kept[i] = NegInf
    IN IF Len(kept) = 0 \/ (pos /\ neg) THEN NaN
       ELSE IF pos THEN PosInf
       ELSE IF neg THEN NegInf
       ELSE Num(RoundDiv(scale * SeqSum([i \in 1..Len(finite) |-> finite[i].v]),
                         Len(kept)))

PagesPerDayColumn(table) == [i \in 1..Len(table) |-> table[i].pages_per_day]
DaysColumn(table) == [i \in 1..Len(table) |-> table[i].days]

(* Stable sort of the rows by the integer keys key[i], ascending. *)
SortRows(table, key) ==
    LET rank(i) == Cardinality({j \in 1..Len(table) :
                        \/ key[j] < key[i]
                        \/ key[j] = key[i] /\ j < i}) + 1
    IN [r \in 1..Len(table) |-> table[CHOOSE i \in 1..Len(table) : rank(i) = r]]

head(table, n) == SubSeq(table, 1, IF n < Len(table) THEN n ELSE Len(table))

(* DataFrame.tail(n): the last n rows; for n < 0 all rows but the first |n|. *)
tail(table, n) ==
    IF n = 0 THEN <<>>
    ELSE IF n > 0 THEN SubSeq(table, (IF n < Len(table) THEN Len(table) - n ELSE 0) + 1, Len(table))
    ELSE SubSeq(table, (IF -n < Len(table) THEN -n ELSE Len(table)) + 1, Len(table))

(* nlargest(3, "score", keep="all"): the rows that tie with the third are kept too. *)
NLargest3WithTies(sub) ==
    LET scored == SelectRows(sub, {i \in Positions(sub) : sub[i].score.k = "num"})
        blank == SelectRows(sub, {i \in Positions(sub) : sub[i].score.k # "num"})
        ordered == SortRows(scored, [i \in 1..Len(scored) |-> -scored[i].score.v]) \o blank
    IN SelectRows(ordered, {i \in Positions(ordered) :
                               i <= 3 \/ ordered[i].score = ordered[3].score})

(* sub.nlargest(3, "score"): score descending, NaN last, ties in table order. *)
NLargest3(sub) ==
    LET scored == SelectRows(sub, {i \in Positions(sub) : sub[i].score.k = "num"})
        blank == SelectRows(sub, {i \in Positions(sub) : sub[i].score.k # "num"})
    IN head(SortRows(scored, [i \in 1..Len(scored) |-> -scored[i].score.v]) \o blank, 3)

BestColumns(table) ==
    [i \in 1..Len(table) |->
        [book_name |-> table[i].book_name, author |-> table[i].author,
         score |-> table[i].score]]

LastColumns(table) ==
    [i \in 1..Len(table) |->
        [book_name |-> table[i].book_name, author |-> table[i].author,
         score |-> table[i].score, end_date |-> table[i].end_date]]

NewColumns(table) ==
    [i \in 1..Len(table) |->
        [book_name |-> table[i].book_name, author |-> table[i].author]]

(* sort_values(by="end_date"): ascending, NaT last. *)
SortByEndDate(table) ==
    LET dated == SelectRows(table, {i \in Positions(table) : table[i].end_date.k = "date"})
        undated == SelectRows(table, {i \in Positions(table) : table[i].end_date.k # "date"})
    IN SortRows(dated, [i \in 1..Len(dated) |-> dated[i].end_date.v]) \o undated

(* The last completed reading of the year subset: summary.py takes the last row *)
(* in table order, general_schema_v2.py sorts by end_date first.                 *)
LastCompleted(sub, sorted) ==
    LET completed == SelectRows(sub, {i \in Positions(sub) : sub[i].status = "Completed"})
    IN LastColumns(tail(IF sorted THEN SortByEndDate(completed) ELSE completed, 1))

(* (pd.to_datetime("today") - end_date).days *)
DaysSince(today, end_date) == IF end_date.k = "date" THEN Num(today - end_date.v) ELSE NaN

NoFeedback == [text |-> "unset", since |-> NaT, diff |-> 0]
NoNewFeedback == [text |-> "No new entries to show.", since |-> NaT, diff |-> 0]
NewFeedback(since, diff) == [text |-> "New entries since", since |-> since, diff |-> diff]

(* The difference of the last two record counts. *)
RecordsDiff(records) ==
    records[Len(records)].records_current - records[Len(records) - 1].records_current

(* transformed_books_current.tail(diff)[["book_name", "author"]] *)
NewEntries(table, diff) == NewColumns(tail(table, diff))

NoResults ==
    [impl |-> "none", error |-> "not called", at |-> "none", requested |-> NaN, year |-> 0,
     overall_total |-> 0, total_current |-> 0, ongoing |-> 0, dropped |-> 0,
     mean_pages_per_day |-> NaN, mean_time_reading |-> NaN,
     mean_pages_per_day_current |-> NaN, mean_time_reading_current |-> NaN,
     best |-> <<>>, last |-> <<>>, days_since_last |-> NaN,
     feedback_new |-> NoFeedback, new_entries |-> <<>>, new_entries_bound |-> FALSE]

(* The call ended at the statement named at: with the exception error, or with   *)
(* the return of the results.                                                     *)
Ended(locals, at, error) == [locals EXCEPT !.at = at, !.error = error]

(* The body shared by the two copies of get_measures.  Each local is computed in *)
(* source order; error names the first exception raised and at the statement     *)
(* that raised it, the locals assigned before it keep their values.  A column    *)
(* the table does not have raises KeyError where it is first read.               *)
Measures(impl, tbc, tc, tr, requested, today) ==
    LET cols == Columns(tbc)
        y == ResolveYear(requested.v, MinYear(tbc), MaxYear(tbc))
        sub == YearSubset(tbc, y)
        text_score == \E i \in 1..Len(sub) : sub[i].score.k = "text"
        last == LastCompleted(sub, impl = "v2")
        entered == [NoResults EXCEPT !.impl = impl, !.requested = requested]
        resolved == [entered EXCEPT !.year = y]
        counts == Counts(tbc, tc, y)
        counted ==
            [resolved EXCEPT
                !.overall_total = counts.overall_total,
                !.total_current = counts.total_current,
                !.ongoing = counts.ongoing,
                !.dropped = counts.dropped]
        averaged ==
            [counted EXCEPT
                !.mean_pages_per_day = MeanRound2(PagesPerDayColumn(tbc), 1),
                !.mean_time_reading = MeanRound2(DaysColumn(tbc), 100),
                !.mean_pages_per_day_current =
                    MeanRound2(PagesPerDayColumn(sub), 1),
                !.mean_time_reading_current = MeanRound2(DaysColumn(sub), 100)]
        bested == [averaged EXCEPT !.best = BestColumns(NLargest3(sub))]
        ranked == [bested EXCEPT !.last = last]
        dated == [ranked EXCEPT !.days_since_last = DaysSince(today, last[1].end_date)]
        diff == RecordsDiff(tr)
    IN IF "year" \notin cols THEN Ended(entered, "year", "KeyError")
       ELSE IF Len(tbc) = 0 THEN Ended(entered, "year", "ValueError")
       ELSE IF requested.k # "int" THEN Ended(entered, "validate", "ValueError")
       ELSE IF "status" \notin cols THEN Ended(resolved, "counts", "KeyError")
       ELSE IF "pages_per_day" \notin cols THEN Ended(counted, "means", "KeyError")
       ELSE IF EmptyMean(PagesPerDayColumn(tbc)) THEN Ended(counted, "means", "AttributeError")
       ELSE IF "days" \notin cols THEN Ended(counted, "means", "KeyError")
       ELSE IF \/ EmptyMean(DaysColumn(tbc))
               \/ EmptyMean(PagesPerDayColumn(sub)) \/ EmptyMean(DaysColumn(sub))
            THEN Ended(counted, "means", "AttributeError")
       ELSE IF "score" \notin cols THEN Ended(averaged, "best", "KeyError")
       ELSE IF text_score THEN Ended(averaged, "best", "TypeError")
       ELSE IF ~({"book_name", "author"} \subseteq cols)
            THEN Ended(averaged, "best", "KeyError")
       ELSE IF "end_date" \notin cols THEN Ended(bested, "last", "KeyError")
       ELSE IF Len(last) = 0 THEN Ended(ranked, "days_since_last", "IndexError")
       ELSE IF Len(tr) >= 2
            THEN IF impl = "v2"
                 THEN IF last[1].end_date.k # "date"
                      THEN Ended(dated, "new_entries", "ValueError")
                      ELSE Ended([dated EXCEPT
                                     !.feedback_new = NewFeedback(last[1].end_date, diff),
                                     !.new_entries = NewEntries(tbc, diff),
                                     !.new_entries_bound = TRUE],
                                 "return", "none")
                 ELSE Ended(dated, "new_entries", "AttributeError")
       ELSE IF impl = "v2"
            THEN Ended([dated EXCEPT !.feedback_new = NoNewFeedback,
                                     !.new_entries = <<>>, !.new_entries_bound = TRUE],
                       "return", "none")
       ELSE Ended([dated EXCEPT !.feedback_new = NoNewFeedback], "return", "UnboundLocalError")

(* manipulation/summary.py *)
get_measures(tbc, tc, tr, requested, today) == Measures("summary", tbc, tc, tr, requested, today)

(* general_schema_v2.py *)
get_measures_v2(tbc, tc, tr, requested, today) == Measures("v2", tbc, tc, tr, requested, today)

-----------------------------------------------------------------------------
(* main.py *)

MainYear == 2025

(* save_df_load and save_df_transform as main.py sets them. *)
NoSnapshots == [load |-> FALSE, transform |-> FALSE]

(* The calendar day at clock value t; every date of the source lies before it. *)
DayOf(t) == 100 + t

(* The years a caller may hand to get_measures: integers around the years of the *)
(* catalogue, and a value that is not an int.                                    *)
RequestedYears == {IntCell(y) : y \in 2024..2026} \cup {Num(2025)}

(* The except clauses of main(): the line logged for each error kind. *)
LogLine(error) ==
    CASE error = "ExtractionError" -> "Pipeline stopped due to extraction error"
      [] error = "ValueError" -> "Pipeline stopped due to parameter issue in load"
      [] error = "LoadError" -> "Pipeline stopped due to loading error"
      [] error = "TransformationError" -> "Pipeline stopped due to transformation error"
      [] OTHER -> "Error"

(* main() returns, after an except clause logged line or after report(): nothing *)
(* calls sys.exit and no exception leaves main(), so the interpreter exits with  *)
(* status 0.                                                                     *)
ExitSuccess == 0

Returns(line) ==
    /\ pc' = "exited"
    /\ log' = line
    /\ exit_status' = ExitSuccess

Memory == <<raw_books_current, raw_consolidate, transformed_books_current,
            transformed_consolidate, transformed_records, results>>

Init ==
    /\ disk = NoDisk
    /\ now = 0
    /\ runs = 0
    /\ pc = "exited"
    /\ save_df = NoSnapshots
    /\ year = IntCell(MainYear)
    /\ raw_books_current = <<>>
    /\ raw_consolidate = <<>>
    /\ transformed_books_current = <<>>
    /\ transformed_consolidate = <<>>
    /\ transformed_records = <<>>
    /\ results = NoResults
    /\ log = ""
    /\ exit_status = ExitSuccess
    /\ calls = <<>>
    /\ loaders = <<>>

(* A new invocation of main(): a fresh process, the directory as the last one left it. *)
Start ==
    /\ pc = "exited"
    /\ runs < MaxRuns
    /\ runs' = runs + 1
    /\ pc' = "extract"
    /\ raw_books_current' = <<>>
    /\ raw_consolidate' = <<>>
    /\ transformed_books_current' = <<>>
    /\ transformed_consolidate' = <<>>
    /\ transformed_records' = <<>>
    /\ results' = NoResults
    /\ log' = ""
    /\ UNCHANGED <<disk, now, save_df, year, exit_status, calls, loaders>>

(* extract() returns the two sheets. *)
Extract ==
    /\ pc = "extract"
    /\ \E books \in SheetVersions, consolidate \in LegacyTables :
          /\ raw_books_current' = books
          /\ raw_consolidate' = consolidate
    /\ pc' = "load"
    /\ UNCHANGED <<disk, now, runs, save_df, year, transformed_books_current,
                   transformed_consolidate, transformed_records, results, log,
                   exit_status, calls, loaders>>

(* ExtractFails with the directory made before the sheets are read. *)
ExtractFailsAfterMakedirs ==
    /\ pc = "extract"
    /\ Returns(LogLine("ExtractionError"))
    /\ disk' = [disk EXCEPT !.dir = TRUE]
    /\ UNCHANGED <<now, runs, save_df, year, Memory, calls, loaders>>

(* extract() raises ExtractionError; main() logs it and returns. *)
ExtractFails ==
    /\ pc = "extract"
    /\ Returns(LogLine("ExtractionError"))
    /\ UNCHANGED <<disk, now, runs, save_df, year, Memory, calls, loaders>>

(* load(directory, raw_books_current, raw_consolidate, save_df) *)
Load ==
    /\ pc = "load"
    /\ LET today == now + 1
           outcome == load(disk, raw_books_current, raw_consolidate, save_df.load, today)
       IN /\ now' = today
          /\ disk' = outcome.disk
          /\ calls' = IF outcome.ret = "not called" THEN calls
                      ELSE Append(calls, CallRecord(disk, today, Len(raw_books_current), outcome))
          /\ IF outcome.error = "none"
             THEN pc' = "transform" /\ UNCHANGED <<log, exit_status>>
             ELSE Returns(LogLine(outcome.error))
    /\ UNCHANGED <<runs, save_df, year, Memory, loaders>>

(* transform(directory, raw_books_current, raw_consolidate, save_df) *)
Transform ==
    /\ pc = "transform"
    /\ LET outcome == transform(disk, raw_books_current, raw_consolidate, save_df.transform)
       IN /\ transformed_books_current' = outcome.books
          /\ transformed_consolidate' = outcome.consolidate
          /\ transformed_records' = outcome.records
          /\ IF outcome.error = "none"
             THEN pc' = "measure" /\ UNCHANGED <<log, exit_status>>
             ELSE Returns(LogLine(outcome.error))
    /\ UNCHANGED <<disk, now, runs, save_df, year, raw_books_current, raw_consolidate,
                   results, calls, loaders>>

Measured(outcome, requested) ==
    /\ pc = "measure"
    /\ year' = requested
    /\ results' = outcome
    /\ IF outcome.error = "none"
       THEN pc' = "report" /\ UNCHANGED <<log, exit_status>>
       ELSE Returns(LogLine(outcome.error))
    /\ UNCHANGED <<disk, now, runs, save_df, raw_books_current, raw_consolidate,
                   transformed_books_current, transformed_consolidate,
                   transformed_records, calls, loaders>>

(* get_measures(..., year=year) of manipulation/summary.py, as main.py calls it *)
GetMeasures ==
    Measured(get_measures(transformed_books_current, transformed_consolidate,
                          transformed_records, IntCell(MainYear), DayOf(now)),
             IntCell(MainYear))

(* the same call in general_schema_v2.py *)
GetMeasuresV2 ==
    Measured(get_measures_v2(transformed_books_current, transformed_consolidate,
                             transformed_records, IntCell(MainYear), DayOf(now)),
             IntCell(MainYear))

(* report(results) prints the tables; main() returns. *)
Report ==
    /\ pc = "report"
    /\ Returns(log)
    /\ UNCHANGED <<disk, now, runs, save_df, year, Memory, calls, loaders>>

Next ==
    \/ Start
    \/ Extract
    \/ ExtractFails
    \/ Load
    \/ Transform
    \/ GetMeasures
    \/ GetMeasuresV2
    \/ Report

Spec == Init /\ [][Next]_vars

-----------------------------------------------------------------------------
(* transform and get_measures on their whole input domain: any non-empty table  *)
(* of catalogue rows, any ledger file of at most two rows (get_measures reads   *)
(* the last two), any requested year.                                           *)

LedgerFiles ==
    {[i \in 1..Len(counts) |-> [date |-> i, records_current |-> FormatInt(counts[i])]] :
        counts \in SeqsUpTo(1..(MaxRows + 1), 2)}

InitCompute ==
    /\ \E rows \in LedgerFiles :
          /\ disk = [NoDisk EXCEPT !.dir = TRUE, !.raw_records = WriteFile(rows)]
          /\ now = Len(rows)
    /\ runs = 1
    /\ pc = "transform"
    /\ save_df = NoSnapshots
    /\ year = IntCell(MainYear)
    /\ raw_books_current \in SourceTables \ {<<>>}
    /\ raw_consolidate \in {t \in LegacyTables : Len(t) \in {1, MaxLegacy}}
    /\ transformed_books_current = <<>>
    /\ transformed_consolidate = <<>>
    /\ transformed_records = <<>>
    /\ results = NoResults
    /\ log = ""
    /\ exit_status = ExitSuccess
    /\ calls = <<>>
    /\ loaders = <<>>

Compute ==
    \E requested \in RequestedYears :
        Measured(get_measures(transformed_books_current, transformed_consolidate,
                              transformed_records, requested, DayOf(now)),
                 requested)

ComputeV2 ==
    \E requested \in RequestedYears :
        Measured(get_measures_v2(transformed_books_current, transformed_consolidate,
                                 transformed_records, requested, DayOf(now)),
                 requested)

NextCompute ==
    \/ Transform
    \/ Compute
    \/ ComputeV2

SpecCompute == InitCompute /\ [][NextCompute]_vars

-----------------------------------------------------------------------------
(* transform and get_measures on tables that put the ranking of best to work:   *)
(* up to MaxRank different rows, several of them with the same score, one with  *)
(* no score and one of another year; the ledger as the first run leaves it.     *)

RankRows ==
    << Row(11, "Completed", Str(10), Str(20), 300, IntCell(9), 2025),
       Row(12, "Completed", Str(21), Str(30), 250, IntCell(8), 2025),
       Row(13, "Completed", Str(31), Str(35), 100, IntCell(8), 2025),
       Row(14, "Completed", Str(36), Str(44), 400, IntCell(8), 2025),
       Row(15, "Ongoing", Str(50), EmptyStr, 120, EmptyStr, 2025),
       Row(16, "Completed", Str(1), Str(9), 200, IntCell(10), 2024) >>

RankCatalogue == {RankRows[i] : i \in 1..Len(RankRows)}

RankTables ==
    {t \in SeqsUpTo(RankCatalogue, MaxRank) :
        Len(t) >= 1 /\ \A i, j \in 1..Len(t) : t[i] = t[j] => i = j}

InitRank ==
    /\ raw_books_current \in RankTables
    /\ disk = [NoDisk EXCEPT
                  !.dir = TRUE,
                  !.raw_records = WriteFile(<<[date |-> 1,
                                              records_current |->
                                                  FormatInt(Len(raw_books_current))]>>)]
    /\ now = 1
    /\ runs = 1
    /\ pc = "transform"
    /\ save_df = NoSnapshots
    /\ year = IntCell(MainYear)
    /\ raw_consolidate \in {t \in LegacyTables : Len(t) = 1}
    /\ transformed_books_current = <<>>
    /\ transformed_consolidate = <<>>
    /\ transformed_records = <<>>
    /\ results = NoResults
    /\ log = ""
    /\ exit_status = ExitSuccess
    /\ calls = <<>>
    /\ loaders = <<>>

NextRank ==
    \/ Transform
    \/ Compute
    \/ ComputeV2

SpecRank == InitRank /\ [][NextRank]_vars

-----------------------------------------------------------------------------
(* transform and get_measures on tables that lack a column: a sheet whose       *)
(* header lacks it handed to transform, or a transformed table without it       *)
(* handed to get_measures by its caller.                                        *)

ColumnTables == {SubSeq(Sheet(k), 1, n) : k \in {0, 1}, n \in 1..MaxRows}

InitColumns ==
    /\ \E rows \in LedgerFiles :
          /\ disk = [NoDisk EXCEPT !.dir = TRUE, !.raw_records = WriteFile(rows)]
          /\ now = Len(rows)
    /\ runs = 1
    /\ save_df = NoSnapshots
    /\ year = IntCell(MainYear)
    /\ raw_consolidate \in {t \in LegacyTables : Len(t) = 1}
    /\ \E table \in ColumnTables :
          \/ /\ pc = "transform"
             /\ transformed_records = <<>>
             /\ raw_books_current \in {table} \cup {DropColumn(table, c) : c \in RawColumns}
             /\ transformed_books_current = <<>>
             /\ transformed_consolidate = <<>>
          \/ /\ pc = "measure"
             /\ transformed_records = Ledger
             /\ raw_books_current = table
             /\ transformed_books_current \in
                    {DropColumn([i \in 1..Len(table) |-> TransformRow(table[i])], c) :
                        c \in TransformedColumns}
             /\ transformed_consolidate = raw_consolidate
    /\ results = NoResults
    /\ log = ""
    /\ exit_status = ExitSuccess
    /\ calls = <<>>
    /\ loaders = <<>>

NextColumns ==
    \/ Transform
    \/ Compute
    \/ ComputeV2

SpecColumns == InitColumns /\ [][NextColumns]_vars

-----------------------------------------------------------------------------
(* One run of load, transform and get_measures with either value of each        *)
(* save_df, on a directory as an earlier load left it (or on none), with or     *)
(* without a fault of its files.                                                *)

PriorDisks ==
    {NoDisk} \cup
    {load(NoDisk, books, legacy, sdf, 1).disk :
        books \in ColumnTables, legacy \in LegacyTables \ {<<>>}, sdf \in BOOLEAN}

InitStore ==
    /\ \E prior \in PriorDisks, fault \in Faults : disk = [prior EXCEPT !.fault = fault]
    /\ now = 1
    /\ runs = 1
    /\ pc = "load"
    /\ save_df \in [load : BOOLEAN, transform : BOOLEAN]
    /\ year = IntCell(MainYear)
    /\ raw_books_current \in ColumnTables
    /\ raw_consolidate \in LegacyTables \ {<<>>}
    /\ transformed_books_current = <<>>
    /\ transformed_consolidate = <<>>
    /\ transformed_records = <<>>
    /\ results = NoResults
    /\ log = ""
    /\ exit_status = ExitSuccess
    /\ calls = <<>>
    /\ loaders = <<>>

NextStore ==
    \/ Load
    \/ Transform
    \/ GetMeasures
    \/ GetMeasuresV2
    \/ Report

SpecStore == InitStore /\ [][NextStore]_vars

-----------------------------------------------------------------------------
(* Up to MaxLoaders invocations of load on the same directory at the same time, *)
(* each with its own row count.  load takes no lock, so the steps of one (test  *)
(* that raw_records.csv exists, create it, read it, append to it) interleave    *)
(* with the steps of the others.                                                *)

(* Ledger files as sequential runs leave them. *)
DedupLedgerFiles ==
    {rows \in LedgerFiles :
        \A i \in 1..(Len(rows) - 1) : rows[i].records_current # rows[i + 1].records_current}

Loader(count) == [at |-> "exists", count |-> count, existing |-> <<>>, today |-> 0]

InitRace ==
    /\ disk \in {[NoDisk EXCEPT !.dir = TRUE]} \cup
                {[NoDisk EXCEPT !.dir = TRUE, !.raw_records = WriteFile(rows)] :
                    rows \in DedupLedgerFiles}
    /\ now = Len(disk.raw_records.rows)
    /\ runs = 0
    /\ pc = "exited"
    /\ save_df = NoSnapshots
    /\ year = IntCell(MainYear)
    /\ raw_books_current = <<>>
    /\ raw_consolidate = <<>>
    /\ transformed_books_current = <<>>
    /\ transformed_consolidate = <<>>
    /\ transformed_records = <<>>
    /\ results = NoResults
    /\ log = ""
    /\ exit_status = ExitSuccess
    /\ calls = <<>>
    /\ \E n \in 1..MaxLoaders :
          loaders \in [1..n -> {Loader(count) : count \in 1..MaxRows}]

RaceFrame == UNCHANGED <<runs, pc, save_df, year, Memory, log, exit_status, calls>>

(* os.path.exists(file_path), load.py:100 *)
RaceExists(p) ==
    /\ loaders[p].at = "exists"
    /\ loaders' = [loaders EXCEPT
                      ![p].at = IF disk.raw_records.exists THEN "read" ELSE "create"]
    /\ UNCHANGED <<disk, now>>
    /\ RaceFrame

(* empty_csv.to_csv(file_path): the file is written anew, header only, load.py:101-102 *)
RaceCreate(p) ==
    /\ loaders[p].at = "create"
    /\ disk' = [disk EXCEPT !.raw_records = WriteFile(<<>>)]
    /\ loaders' = [loaders EXCEPT ![p].at = "read"]
    /\ UNCHANGED now
    /\ RaceFrame

(* today = pd.Timestamp.now() and existing = pd.read_csv(file_path), load.py:105, 39 *)
RaceRead(p) ==
    /\ loaders[p].at = "read"
    /\ now' = now + 1
    /\ loaders' = [loaders EXCEPT ![p].at = "append",
                                  ![p].today = now + 1,
                                  ![p].existing = ReadRecords(disk.raw_records)]
    /\ UNCHANGED disk
    /\ RaceFrame

(* the comparison and new_record.to_csv(file_path, mode="a"), load.py:40-41 *)
RaceAppend(p) ==
    /\ loaders[p].at = "append"
    /\ disk' = AppendIfNew(disk, loaders[p].existing, loaders[p].today, loaders[p].count)
    /\ loaders' = [loaders EXCEPT ![p].at = "done"]
    /\ UNCHANGED now
    /\ RaceFrame

NextRace ==
    \E p \in 1..Len(loaders) :
        \/ RaceExists(p)
        \/ RaceCreate(p)
        \/ RaceRead(p)
        \/ RaceAppend(p)

SpecRace == InitRace /\ [][NextRace]_vars

-----------------------------------------------------------------------------
(* Properties of the record ledger (elt/load.py), stated for Spec *)

Entry(today, count) == [date |-> today, records_current |-> count]

CountIsNew(before, count) ==
    Len(before) = 0 \/ before[Len(before)].records_current # count

(* C1: after any sequence of load runs, starting from no ledger file, the ledger *)
(* never holds two consecutive entries with equal record_count.                  *)
C1_NoAdjacentEqualCounts ==
    \A i \in 1..(Len(Ledger) - 1) :
        Ledger[i].records_current # Ledger[i + 1].records_current

(* A run found the count unchanged and wrote nothing, next to a ledger of two entries. *)
C1_Witness ==
    /\ Len(Ledger) >= 2
    /\ \E i \in 1..Len(calls) : calls[i].after = calls[i].before

(* C2 as stated: two calls in a row with the same count append exactly one entry *)
(* in total, and the second call leaves the ledger unchanged.                    *)
C2_ExactlyOnceInTotal ==
    \A i \in 1..(Len(calls) - 1) :
        calls[i].count = calls[i + 1].count =>
            /\ calls[i + 1].after = calls[i + 1].before
            /\ Len(calls[i + 1].after) = Len(calls[i].before) + 1

(* C2 as amended: two calls in a row with the same count append at most one      *)
(* entry in total: exactly one when the ledger was empty or its last count       *)
(* differed before the first call, none when the ledger already ended with that  *)
(* count; the second call always leaves the ledger unchanged.                    *)
C2_AtMostOnceInTotal ==
    \A i \in 1..(Len(calls) - 1) :
        calls[i].count = calls[i + 1].count =>
            /\ calls[i + 1].after = calls[i + 1].before
            /\ Len(calls[i + 1].after) =
                   Len(calls[i].before) + (IF CountIsNew(calls[i].before, calls[i].count)
                                           THEN 1 ELSE 0)

(* Two calls in a row with the same count, the first of which appended. *)
C2_Witness ==
    \E i \in 1..(Len(calls) - 1) :
        /\ calls[i].count = calls[i + 1].count
        /\ Len(calls[i].after) = Len(calls[i].before) + 1
        /\ Len(calls[i].before) >= 1

(* C3 as stated: the call appends (timestamp, count) and returns true when the   *)
(* ledger is empty or its last count differs from count; otherwise it changes    *)
(* nothing and returns false.                                                    *)
C3_AppendsAndReturnsBool ==
    \A i \in 1..Len(calls) :
        IF CountIsNew(calls[i].before, calls[i].count)
        THEN /\ calls[i].after = Append(calls[i].before, Entry(calls[i].today, calls[i].count))
             /\ calls[i].ret = "True"
        ELSE /\ calls[i].after = calls[i].before
             /\ calls[i].ret = "False"

(* C3 as amended: the call appends (timestamp, count) when the ledger is empty   *)
(* or its last count differs from count, and otherwise changes nothing; in both  *)
(* cases it returns no value (None).                                             *)
C3_AppendsIffChanged ==
    \A i \in 1..Len(calls) :
        /\ calls[i].ret = "None"
        /\ IF CountIsNew(calls[i].before, calls[i].count)
           THEN calls[i].after = Append(calls[i].before, Entry(calls[i].today, calls[i].count))
           ELSE calls[i].after = calls[i].before

(* A call appended a count that the ledger's first entry, but not its last, held. *)
C3_Witness ==
    \E i \in 1..Len(calls) :
        /\ Len(calls[i].before) >= 2
        /\ calls[i].before[1].records_current = calls[i].count
        /\ Len(calls[i].after) = Len(calls[i].before) + 1

(* C4: the ledger is append-only: in every step the entries before it are a     *)
(* prefix of the entries after it, and a run adds at most one entry.            *)
C4_AppendOnly ==
    [][/\ IsPrefix(Ledger, Ledger')
       /\ Len(Ledger') <= Len(Ledger) + 1
       /\ (pc # "load" => Ledger' = Ledger)]_vars

(* A run appended to a ledger that already held two entries. *)
C4_Witness ==
    /\ Len(Ledger) = 3
    /\ Len(calls) >= 3
    /\ Len(calls[Len(calls)].before) = 2

-----------------------------------------------------------------------------
(* Properties of transform and get_measures, stated for SpecCompute *)

Called == results.impl # "none"
Returned == Called /\ results.error = "none"
IntYear == year.k = "int"

Rows == 1..Len(transformed_books_current)
CompletedRows == {i \in Rows : transformed_books_current[i].status = "Completed"}
CompletedRowsOf(y) == {i \in CompletedRows : transformed_books_current[i].year = y}

(* C5: pages_per_day is null exactly when days is null or zero, is never         *)
(* infinite, and otherwise is total_pages / days to the nearest hundredth.       *)
C5_PagesPerDayNullIffNoDays ==
    \A i \in Rows :
        LET r == transformed_books_current[i]
        IN /\ r.pages_per_day = NaN <=> (r.days = NaN \/ r.days = Num(0))
           /\ r.pages_per_day.k # "inf"
           /\ (r.days.k = "num" /\ r.days.v > 0) =>
                 /\ r.pages_per_day.k = "num"
                 /\ 2 * (100 * r.total_pages - r.pages_per_day.v * r.days.v) <= r.days.v
                 /\ 2 * (r.pages_per_day.v * r.days.v - 100 * r.total_pages) <= r.days.v

OutOfRange ==
    \/ year.v < MinYear(transformed_books_current)
    \/ year.v > MaxYear(transformed_books_current)

SameMeasures(a, b) == [a EXCEPT !.requested = NaN] = [b EXCEPT !.requested = NaN]

(* C6: a requested year outside the years of the table resolves to the maximum   *)
(* year, raises no error, and gives the measures of a request for that maximum.  *)
C6_OutOfRangeYearIsMaxYearWithoutError ==
    (Called /\ IntYear /\ OutOfRange) =>
        /\ results.error = "none"
        /\ results.year = MaxYear(transformed_books_current)
        /\ SameMeasures(results,
               Measures(results.impl, transformed_books_current, transformed_consolidate,
                        transformed_records,
                        IntCell(MaxYear(transformed_books_current)), DayOf(now)))

HistoryDiff ==
    transformed_records[Len(transformed_records)].records_current
        - transformed_records[Len(transformed_records) - 1].records_current

(* The last n rows of the current table, in table order, as (book_name, author). *)
LastRows(n) ==
    LET len == Len(transformed_books_current)
        k == IF n < len THEN n ELSE len
    IN [i \in 1..k |->
           [book_name |-> transformed_books_current[len - k + i].book_name,
            author |-> transformed_books_current[len - k + i].author]]

(* C7: with at least two ledger entries and a positive diff, get_measures        *)
(* returns without error and new_entries is the last diff rows of the table.     *)
C7_PositiveDiffGivesTailRows ==
    (Called /\ IntYear /\ Len(transformed_records) >= 2 /\ HistoryDiff > 0) =>
        /\ results.error = "none"
        /\ results.new_entries = LastRows(HistoryDiff)

(* C8: with at least two ledger entries and diff <= 0, a returned result has no  *)
(* new entries and feedback_new says there are none.                             *)
C8_NonPositiveDiffGivesNoEntries ==
    (Returned /\ Len(transformed_records) >= 2 /\ HistoryDiff <= 0) =>
        /\ results.new_entries = <<>>
        /\ results.feedback_new = NoNewFeedback

(* C9: with a ledger history of length 0 or 1, get_measures raises nothing,      *)
(* new_entries is empty and feedback_new says there are no new entries.          *)
C9_ShortHistoryGivesNoEntries ==
    (Called /\ IntYear /\ Len(transformed_records) <= 1) =>
        /\ results.error = "none"
        /\ results.new_entries_bound
        /\ results.new_entries = <<>>
        /\ results.feedback_new = NoNewFeedback

(* C10: overall_total is the legacy row count plus the Completed rows of every   *)
(* year, and total_current is the number of rows that are Completed in the       *)
(* resolved year.                                                                *)
C10_TotalsCountCompleted ==
    (Called /\ IntYear) =>
        LET resolved == IF OutOfRange THEN MaxYear(transformed_books_current) ELSE year.v
        IN /\ results.overall_total =
                  Len(transformed_consolidate)
                      + Cardinality(CompletedRows)
           /\ results.total_current =
                  Cardinality(CompletedRowsOf(resolved))

(* A returned result for 2025 over one Completed row of 2024, one of 2025 and    *)
(* one Ongoing row, with two legacy rows: overall_total 4, total_current 1.      *)
C10_Witness ==
    /\ Returned
    /\ results.year = 2025
    /\ Len(transformed_consolidate) = 2
    /\ Cardinality(CompletedRowsOf(2024)) = 1
    /\ Cardinality({i \in Rows : transformed_books_current[i].status = "Ongoing"}) = 1
    /\ results.overall_total = 4
    /\ results.total_current = 1

-----------------------------------------------------------------------------
(* Properties of the measures of get_measures, stated for SpecCompute (C11, C13, *)
(* C14) and SpecRank (C12)                                                       *)

(* The statement the call ended at lies after the counts / best / last. *)
CountsReached == results.at \notin {"none", "year", "validate", "counts"}
BestReached == results.at \in {"last", "days_since_last", "new_entries", "return"}
LastReached == results.at \in {"days_since_last", "new_entries", "return"}

RowsWithStatus(status) == {i \in Rows : transformed_books_current[i].status = status}

ScoreRank(score) == IF score.k = "num" THEN score.v ELSE -1

SubsetRows == {i \in Rows : transformed_books_current[i].year = results.year}

BestOf(i) ==
    [book_name |-> transformed_books_current[i].book_name,
     author |-> transformed_books_current[i].author,
     score |-> transformed_books_current[i].score]

C13_LastIsLatestCompleted ==
    (IntYear /\ LastReached /\ CompletedRowsOf(results.year) # {}) =>
        /\ Len(results.last) = 1
        /\ \E i \in CompletedRowsOf(results.year) :
              /\ results.last[1].book_name = transformed_books_current[i].book_name
              /\ results.last[1].end_date = transformed_books_current[i].end_date
        /\ \A i \in CompletedRowsOf(results.year) :
              transformed_books_current[i].end_date.v <= results.last[1].end_date.v

(* C14: when the year subset has no Completed row, get_measures returns without  *)
(* raising, last has zero rows and days_since_last is null.                      *)
C14_NoCompletedStillReturns ==
    (Called /\ IntYear /\ CompletedRowsOf(results.year) = {}) =>
        /\ results.error = "none"
        /\ results.last = <<>>
        /\ results.days_since_last = NaN

-----------------------------------------------------------------------------
(* Properties of the errors of get_measures, stated for SpecColumns *)

(* C15: a requested year that is not an int ends get_measures with a ValueError, *)
(* whatever the tables are.                                                      *)
C15_NonIntegerYearIsValueError ==
    (Called /\ ~IntYear) => results.error = "ValueError"

RequiredColumns == {"year", "status", "score", "end_date", "pages_per_day", "days",
                    "book_name", "author"}

(* C16: a table without one of the required columns ends get_measures with a     *)
(* TransformationError, which main() logs as a transformation error.             *)
C16_MissingColumnIsTransformationError ==
    (Called /\ IntYear
        /\ ~(RequiredColumns \subseteq Columns(transformed_books_current))) =>
        /\ results.error = "TransformationError"
        /\ log = LogLine("TransformationError")

-----------------------------------------------------------------------------
(* Properties of the runs of main(), stated for Spec *)

EmptyDataset == Len(raw_books_current) = 0 \/ Len(raw_consolidate) = 0

(* C17: load with an empty current or legacy table ends the run with the         *)
(* ValueError line and changes nothing: no directory, no ledger file, no         *)
(* snapshot, no ledger entry, no table transformed.                              *)
C17_EmptyDatasetTouchesNothing ==
    [][(pc = "load" /\ EmptyDataset) =>
          /\ pc' = "exited"
          /\ log' = LogLine("ValueError")
          /\ disk' = disk
          /\ calls' = calls
          /\ Memory' = Memory]_vars

(* C18: a run that ended with a transformation error left the ledger as it was   *)
(* before the run (before the run's call of log_record_if_new).                  *)
C18_FailedTransformLeavesLedger ==
    (pc = "exited" /\ log = LogLine("TransformationError")) =>
        /\ Len(calls) >= 1
        /\ Ledger = calls[Len(calls)].before

FatalLines == {LogLine("ExtractionError"), LogLine("TransformationError"),
               LogLine("LoadError"), LogLine("ValueError")}

(* C19: a run that ended after a fatal error has a non-zero exit status, a run   *)
(* that ended without any error has exit status zero.                            *)
C19_ExitStatusTellsFailure ==
    (pc = "exited" /\ runs >= 1) =>
        /\ (log \in FatalLines => exit_status # 0)
        /\ (log = "" => exit_status = 0)

(* C20: when extract fails, the step that ends the run changes nothing on disk   *)
(* (directory, ledger file and entries, snapshots), makes no call of             *)
(* log_record_if_new, and the run ends with no table loaded or transformed and   *)
(* no measures computed.                                                         *)
C20_ExtractionErrorTouchesNothing ==
    /\ [][(pc = "extract" /\ log' = LogLine("ExtractionError")) =>
              /\ pc' = "exited"
              /\ disk' = disk
              /\ now' = now
              /\ calls' = calls]_vars
    /\ []((pc = "exited" /\ log = LogLine("ExtractionError")) =>
              /\ raw_books_current = <<>> /\ raw_consolidate = <<>>
              /\ transformed_books_current = <<>> /\ transformed_consolidate = <<>>
              /\ transformed_records = <<>>
              /\ results = NoResults)

(* Runs both before any directory exists and after a ledger was written ended    *)
(* with an extraction error: here the second, with the ledger of an earlier run. *)
C20_Witness ==
    /\ pc = "exited"
    /\ log = LogLine("ExtractionError")
    /\ runs >= 2
    /\ disk.dir
    /\ Len(Ledger) >= 1

-----------------------------------------------------------------------------
(* Properties of load and transform on the files of the directory, stated for    *)
(* SpecStore                                                                     *)

LedgerFaults == {"create", "read", "append"}

(* C21: a load that ends the run because the ledger file cannot be created, read *)
(* or appended to is reported as a LoadError, and leaves the ledger's rows as    *)
(* they were.                                                                    *)
C21_LedgerFailureIsLoadError ==
    [][(pc = "load" /\ ~EmptyDataset /\ disk.fault \in LedgerFaults /\ pc' = "exited") =>
          /\ log' = LogLine("LoadError")
          /\ Ledger' = Ledger]_vars

(* C24: a load with save_df leaves either both snapshot files holding the tables *)
(* of this run or both files as they were; without a fault it writes both, over  *)
(* the files of an earlier run too, and goes on.                                 *)
C24_SnapshotsAllOrNothing ==
    [][(pc = "load" /\ save_df.load /\ ~EmptyDataset) =>
          /\ \/ /\ disk'.raw_books_current = WriteFile(ToCsvBooks(raw_books_current))
                /\ disk'.raw_consolidate = WriteFile(raw_consolidate)
             \/ /\ disk'.raw_books_current = disk.raw_books_current
                /\ disk'.raw_consolidate = disk.raw_consolidate
          /\ disk.fault = "none" =>
                /\ pc' = "transform"
                /\ disk'.raw_books_current = WriteFile(ToCsvBooks(raw_books_current))]_vars

(* C25: a transform that succeeds returns the legacy table it was handed, row by *)
(* row, and leaves the raw tables of its caller as they were.                    *)
C25_LegacyPassesThrough ==
    [][(pc = "transform" /\ pc' = "measure") =>
          /\ transformed_consolidate' = raw_consolidate
          /\ raw_consolidate' = raw_consolidate
          /\ raw_books_current' = raw_books_current]_vars

Transformed == pc \in {"measure", "report"} \/ results.impl # "none"

(* What transform gives for the same raw tables with save_df = False. *)
InMemory == transform(disk, raw_books_current, raw_consolidate, FALSE)

IntYears == {y.v : y \in {r \in RequestedYears : r.k = "int"}}

(* C26: when load wrote the snapshots and transform read them back, the current  *)
(* and legacy tables have as many rows, and as many rows of each status, as      *)
(* transform gives in memory for the same raw tables, and the four counts of     *)
(* get_measures are the same for every requested year.                           *)
C26_SnapshotRoundTripKeepsCounts ==
    (Transformed /\ save_df.load /\ save_df.transform) =>
        /\ InMemory.error = "none"
        /\ Len(transformed_books_current) = Len(InMemory.books)
        /\ Len(transformed_consolidate) = Len(InMemory.consolidate)
        /\ \A status \in {"Completed", "Ongoing", "Dropped"} :
              CountStatus(transformed_books_current, status)
                  = CountStatus(InMemory.books, status)
        /\ \A y \in IntYears :
              Counts(transformed_books_current, transformed_consolidate,
                     ResolveYear(y, MinYear(transformed_books_current),
                                 MaxYear(transformed_books_current)))
                  = Counts(InMemory.books, InMemory.consolidate,
                           ResolveYear(y, MinYear(InMemory.books), MaxYear(InMemory.books)))

(* Snapshots of an earlier run were overwritten and read back; the table read    *)
(* back keeps a score as text where the table in memory has a null.              *)
C26_Witness ==
    /\ Transformed /\ save_df.load /\ save_df.transform
    /\ Len(transformed_books_current) >= 2
    /\ \E i \in Rows : /\ transformed_books_current[i].score = Text
                        /\ InMemory.books[i].score = NaN
    /\ \E i \in Rows : transformed_books_current[i].status = "Completed"
    /\ Len(Ledger) = 2

-----------------------------------------------------------------------------
(* Properties of the line main() logs, stated for SpecCompute *)

(* The stage a logged line names. *)
StageNamed(line) ==
    CASE line = LogLine("ExtractionError") -> "extract"
      [] line = LogLine("ValueError") -> "load"
      [] line = LogLine("LoadError") -> "load"
      [] line = LogLine("TransformationError") -> "transform"
      [] OTHER -> "no stage"

(* The stage whose error ended a run that had passed extract and load. *)
FailedStage == IF Called THEN "get_measures" ELSE "transform"

(* C22: the line logged for a run that ended with an error names the stage that  *)
(* failed; an error of get_measures is not put down to load or to no stage.      *)
C22_LineNamesFailedStage ==
    (pc = "exited" /\ log # "") => StageNamed(log) = FailedStage

-----------------------------------------------------------------------------
(* Properties of the new entries over the runs of main(), stated for Spec *)

AfterLoad == pc \in {"transform", "measure", "report"} \/ Called

(* get_measures came to its new-entries statements (or past them). *)
NewEntriesReached == results.at \in {"new_entries", "return"}

(* C27: after a load that succeeded the last ledger entry holds the row count of *)
(* the current table; so a positive diff is at most that row count, and          *)
(* new_entries has diff rows.                                                    *)
C27_LastCountIsRowCount ==
    /\ AfterLoad =>
          /\ Len(Ledger) >= 1
          /\ Ledger[Len(Ledger)].records_current = Len(raw_books_current)
    /\ (NewEntriesReached /\ Len(transformed_records) >= 2 /\ HistoryDiff > 0) =>
          /\ HistoryDiff <= Len(transformed_books_current)
          /\ results.new_entries_bound
          /\ Len(results.new_entries) = HistoryDiff

(* The load of this run found the count of the last entry and appended nothing. *)
NoAppendRun ==
    /\ AfterLoad
    /\ calls[Len(calls)].after = calls[Len(calls)].before

(* C28: in a run whose load appended nothing, get_measures takes diff from the   *)
(* last two ledger entries, those of the run before, and new_entries is again    *)
(* the tail of diff rows of the current table.                                   *)
C28_SameDeltaWithoutAppend ==
    (NewEntriesReached /\ NoAppendRun /\ Len(transformed_records) >= 2) =>
        /\ results.new_entries_bound
        /\ results.feedback_new.diff = HistoryDiff
        /\ results.new_entries = NewEntries(transformed_books_current, HistoryDiff)

-----------------------------------------------------------------------------
(* Properties of load invocations running side by side, stated for SpecRace *)

AdjacentEqualCounts ==
    \E i \in 1..(Len(Ledger) - 1) :
        Ledger[i].records_current = Ledger[i + 1].records_current

(* C23: the ledger comes to hold two consecutive entries with equal counts only  *)
(* when two load invocations with the same row count ran side by side; with one  *)
(* invocation it never does.                                                     *)
C23_OnlyConcurrentLoadsBreakDedup ==
    AdjacentEqualCounts =>
        \E p, q \in 1..Len(loaders) :
            /\ p # q
            /\ loaders[p].count = loaders[q].count
            /\ loaders[p].at = "done" /\ loaders[q].at = "done"

(* Two invocations with the same count both read the ledger before either       *)
(* appended: the ledger ends with that count twice.                              *)
C23_Witness ==
    /\ Len(loaders) = 2
    /\ loaders[1].count = loaders[2].count
    /\ loaders[1].existing = loaders[2].existing
    /\ Len(Ledger) >= 2
    /\ Ledger[Len(Ledger)].records_current = loaders[1].count
    /\ Ledger[Len(Ledger) - 1].records_current = loaders[1].count

====
